---------------------------- MODULE Spec2Model ----------------------------
(***************************************************************************)
(* sbom-tree.py: SBOM normalisation (CycloneDX / SPDX) into a Graph of     *)
(* nodes, edges and candidate roots, root selection (build_forest) and the *)
(* three traversals (ascii_trees, to_d3_tree, to_dot).                     *)
(*                                                                         *)
(* Strings are sequences of character codes, so that str.lower(),          *)
(* str.upper(), str.replace() and the ordering used by sorted() are        *)
(* computed rather than assumed.  Python's None is the one-element         *)
(* sequence <<0>>, which is no string of the inputs.                       *)
(***************************************************************************)
EXTENDS Integers, Sequences, FiniteSets, TLC

VARIABLES pc, doc, nodes, edges, roots, iterOrder, rootsOrder, start_ids,
          forest, mode, include_dupes, max_depth, ri, stack, visited_global,
          out, dq, reachable

vars == <<pc, doc, nodes, edges, roots, iterOrder, rootsOrder, start_ids,
          forest, mode, include_dupes, max_depth, ri, stack, visited_global,
          out, dq, reachable>>

-----------------------------------------------------------------------------
(* Strings *)

None == <<0>>

Truthy(x) == x # None /\ x # <<>>

\* Python's  x or y
Or(x, y) == IF Truthy(x) THEN x ELSE y

\* str.lower() on ASCII
Lower(s) == [i \in 1..Len(s) |-> IF s[i] \in 65..90 THEN s[i] + 32 ELSE s[i]]

\* str.upper() on ASCII
Upper(s) == [i \in 1..Len(s) |-> IF s[i] \in 97..122 THEN s[i] - 32 ELSE s[i]]

\* str.replace("-", "_")
ReplaceHyphen(s) == [i \in 1..Len(s) |-> IF s[i] = 45 THEN 95 ELSE s[i]]

\* Python's  s < t  on strings (code-point lexicographic)
StrLess(s, t) ==
  \E i \in 1..(Len(s) + 1) :
     /\ \A j \in 1..(i - 1) : j <= Len(t) /\ s[j] = t[j]
     /\ \/ i > Len(s) /\ i <= Len(t)
        \/ i <= Len(s) /\ i <= Len(t) /\ s[i] < t[i]

Range(f) == {f[i] : i \in DOMAIN f}

\* the sequences over S of length at most n
SeqsUpTo(S, n) == UNION {[1..k -> S] : k \in 0..n}

\* the orders in which a set can be enumerated
Perms(S) == {p \in [1..Cardinality(S) -> S] : Range(p) = S}

-----------------------------------------------------------------------------
(* dict helpers *)

EmptyMap == << >>

\* d.setdefault(k, v)
SetDefault(d, k, v) == IF k \in DOMAIN d THEN d ELSE d @@ (k :> v)

\* d[k] = v
Put(d, k, v) == IF k \in DOMAIN d THEN [d EXCEPT ![k] = v] ELSE d @@ (k :> v)

\* d.get(k, dflt)
Get(d, k, dflt) == IF k \in DOMAIN d THEN d[k] ELSE dflt

\* s.edges[k].add(c)  on a defaultdict(set)
AddEdge(e, k, c) == IF k \in DOMAIN e THEN [e EXCEPT ![k] = @ \cup {c}]
                    ELSE e @@ (k :> {c})

\* {k for kids in s.edges.values() for k in kids}
AllChildren(e) == UNION {e[k] : k \in DOMAIN e}

\* class SBOM, as constructed
NewSBOM == [nodes |-> EmptyMap, edges |-> EmptyMap, roots |-> {}]

-----------------------------------------------------------------------------
(* String literals of the source and of the inputs *)

S_component == <<99, 111, 109, 112, 111, 110, 101, 110, 116>>
S_package == <<112, 97, 99, 107, 97, 103, 101>>
S_slash == <<47>>
S_at == <<64>>
S_CycloneDX == <<67, 121, 99, 108, 111, 110, 101, 68, 88>>

id_a == <<97>>
id_b == <<98>>
id_c == <<99>>
id_d == <<100>>
id_e == <<101>>
id_root == <<114, 111, 111, 116>>
id_P == <<80>>
id_Q == <<81>>
id_R == <<82>>
id_Z == <<90>>
L_Lib == <<76, 105, 98>>
L_lib == <<108, 105, 98>>
L_app == <<97, 112, 112>>
L_1 == <<49>>

-----------------------------------------------------------------------------
(* CycloneDX *)

\* a component dict; an absent key reads as None
NoDeps == [kind |-> "absent", items |-> << >>]

Comp0 == [bom_ref |-> None, bomRef |-> None, purl |-> None, name |-> None,
          group |-> None, version |-> None, type |-> None,
          dependencies |-> NoDeps]

\* c.get("bom-ref") or c.get("bomRef") or c.get("purl") or c.get("name")
CxId(c) == Or(Or(Or(c.bom_ref, c.bomRef), c.purl), c.name)

_cx_label(comp) ==
  LET name == Or(Or(Or(comp.name, comp.group), comp.type), S_component)
      version == comp.version
      group == comp.group
      label == IF Truthy(group) /\ group # name
               THEN group \o S_slash \o name ELSE name
  IN  IF Truthy(version) THEN label \o S_at \o version ELSE label

\* for c in comps: if cid: s.nodes[cid] = _cx_label(c)
RECURSIVE CdxComponents(_, _)
CdxComponents(s, comps) ==
  IF comps = << >> THEN s
  ELSE LET c == Head(comps)
           cid == CxId(c)
           s1 == IF Truthy(cid)
                 THEN [s EXCEPT !.nodes = Put(s.nodes, cid, _cx_label(c))]
                 ELSE s
       IN  CdxComponents(s1, Tail(comps))

\* root_id of metadata.component (None when there is none)
CdxRootId(obj) ==
  IF obj.metadata_component = << >> THEN None
  ELSE LET r == CxId(obj.metadata_component[1])
       IN  IF Truthy(r) THEN r ELSE None

\* if root_id: s.nodes.setdefault(root_id, label); s.roots.add(root_id)
CdxMetadata(s, obj) ==
  LET root_id == CdxRootId(obj)
  IN  IF Truthy(root_id)
      THEN [s EXCEPT !.nodes = SetDefault(s.nodes, root_id,
                                   _cx_label(obj.metadata_component[1])),
                     !.roots = s.roots \cup {root_id}]
      ELSE s

\* for child in dependsOn: skip falsy; setdefault child; add edge
CdxAddChild_NoPlaceholder(s, ref, child) ==
  IF ~Truthy(child) THEN s
  ELSE [s EXCEPT !.edges = AddEdge(s.edges, ref, child)]

\* the child set is overwritten instead of extended
CdxAddChild_Overwrite(s, ref, child) ==
  IF ~Truthy(child) THEN s
  ELSE [s EXCEPT !.nodes = SetDefault(s.nodes, child, child),
                 !.edges = Put(s.edges, ref, {child})]

CdxAddChild(s, ref, child) ==
  IF ~Truthy(child) THEN s
  ELSE [s EXCEPT !.nodes = SetDefault(s.nodes, child, child),
                 !.edges = AddEdge(s.edges, ref, child)]

RECURSIVE CdxDependsOn(_, _, _)
CdxDependsOn(s, ref, kids) ==
  IF kids = << >> THEN s
  ELSE CdxDependsOn(CdxAddChild(s, ref, Head(kids)), ref, Tail(kids))

\* for dep in dependencies: skip if no ref; setdefault ref; children
RECURSIVE CdxDependencies(_, _)
CdxDependencies(s, deps) ==
  IF deps = << >> THEN s
  ELSE LET dep == Head(deps)
           ref == dep.ref
           s1 == IF ~Truthy(ref) THEN s
                 ELSE CdxDependsOn(
                        [s EXCEPT !.nodes = SetDefault(s.nodes, ref, ref)],
                        ref, dep.dependsOn)
       IN  CdxDependencies(s1, Tail(deps))

\* the inline loop body: no test on src or child
RECURSIVE CdxInlineChildren(_, _, _)
CdxInlineChildren(s, src, kids) ==
  IF kids = << >> THEN s
  ELSE LET child == Head(kids)
           n1 == SetDefault(s.nodes, src, src)
           n2 == SetDefault(n1, child, child)
       IN  CdxInlineChildren(
             [s EXCEPT !.nodes = n2, !.edges = AddEdge(s.edges, src, child)],
             src, Tail(kids))

RECURSIVE CdxInlineLoop(_, _)
CdxInlineLoop(s, comps) ==
  IF comps = << >> THEN s
  ELSE LET c == Head(comps)
           src == CxId(c)
           deps_field == IF c.dependencies.kind = "absent" THEN << >>
                         ELSE c.dependencies.items
           s1 == IF c.dependencies.kind \in {"absent", "list"}
                 THEN CdxInlineChildren(s, src, deps_field)
                 ELSE s
       IN  CdxInlineLoop(s1, Tail(comps))

\* if not s.edges and comps: ...
CdxInlineFallback(s, comps) ==
  IF DOMAIN s.edges = {} /\ comps # << >> THEN CdxInlineLoop(s, comps) ELSE s

\* candidates = nodes - all_children; roots.update; declared root overrides
CdxRoots(s, root_id) ==
  LET candidates == (DOMAIN s.nodes) \ AllChildren(s.edges)
      r1 == s.roots \cup candidates
  IN  [s EXCEPT !.roots = IF Truthy(root_id) THEN {root_id} ELSE r1]

\* the declared root is attached over every edge source, targeted or not
CdxAttachTopLevel_AllSources(s, root_id) ==
  IF Truthy(root_id) /\ root_id \in DOMAIN s.nodes
     /\ root_id \notin DOMAIN s.edges
  THEN LET top_level == DOMAIN s.edges
       IN  IF top_level # {}
           THEN [s EXCEPT !.edges = Put(s.edges, root_id, top_level)]
           ELSE s
  ELSE s

\* if root_id and root_id in s.nodes and root_id not in s.edges: ...
CdxAttachTopLevel(s, root_id) ==
  IF Truthy(root_id) /\ root_id \in DOMAIN s.nodes
     /\ root_id \notin DOMAIN s.edges
  THEN LET in_deps == AllChildren(s.edges)
           top_level == {r \in DOMAIN s.edges : r \notin in_deps}
       IN  IF top_level # {}
           THEN [s EXCEPT !.edges = Put(s.edges, root_id, top_level)]
           ELSE s
  ELSE s

\* the Graph before the declared root is wired in (lines 44-78)
CdxBase(obj) ==
  LET comps == obj.components
      s1 == CdxComponents(NewSBOM, comps)
      s2 == CdxMetadata(s1, obj)
      s3 == CdxDependencies(s2, obj.dependencies)
  IN  CdxInlineFallback(s3, comps)

_from_cyclonedx(obj) ==
  LET root_id == CdxRootId(obj)
  IN  CdxAttachTopLevel(CdxRoots(CdxBase(obj), root_id), root_id)

-----------------------------------------------------------------------------
(* SPDX *)

T_RUNTIME_DEPENDENCY_OF == <<82, 85, 78, 84, 73, 77, 69, 95, 68, 69, 80, 69, 78, 68, 69, 78, 67, 89, 95, 79, 70>>
T_BUILD_DEPENDENCY_OF == <<66, 85, 73, 76, 68, 95, 68, 69, 80, 69, 78, 68, 69, 78, 67, 89, 95, 79, 70>>
T_DEV_DEPENDENCY_OF == <<68, 69, 86, 95, 68, 69, 80, 69, 78, 68, 69, 78, 67, 89, 95, 79, 70>>
T_TEST_DEPENDENCY_OF == <<84, 69, 83, 84, 95, 68, 69, 80, 69, 78, 68, 69, 78, 67, 89, 95, 79, 70>>
T_OPTIONAL_DEPENDENCY_OF == <<79, 80, 84, 73, 79, 78, 65, 76, 95, 68, 69, 80, 69, 78, 68, 69, 78, 67, 89, 95, 79, 70>>
T_STATIC_LINK == <<83, 84, 65, 84, 73, 67, 95, 76, 73, 78, 75>>
T_DYNAMIC_LINK == <<68, 89, 78, 65, 77, 73, 67, 95, 76, 73, 78, 75>>
T_DATA_FILE_OF == <<68, 65, 84, 65, 95, 70, 73, 76, 69, 95, 79, 70>>
T_EXAMPLE_OF == <<69, 88, 65, 77, 80, 76, 69, 95, 79, 70>>
T_GENERATED_FROM == <<71, 69, 78, 69, 82, 65, 84, 69, 68, 95, 70, 82, 79, 77>>
T_PATCH_FOR == <<80, 65, 84, 67, 72, 95, 70, 79, 82>>
T_PREREQUISITE_FOR == <<80, 82, 69, 82, 69, 81, 85, 73, 83, 73, 84, 69, 95, 70, 79, 82>>
T_AMENDS == <<65, 77, 69, 78, 68, 83>>
T_DEPENDENCY_MANIFEST_OF == <<68, 69, 80, 69, 78, 68, 69, 78, 67, 89, 95, 77, 65, 78, 73, 70, 69, 83, 84, 95, 79, 70>>
T_DEPENDS_ON == <<68, 69, 80, 69, 78, 68, 83, 95, 79, 78>>
T_PREREQUISITE == <<80, 82, 69, 82, 69, 81, 85, 73, 83, 73, 84, 69>>

reverse_types ==
  {T_RUNTIME_DEPENDENCY_OF, T_BUILD_DEPENDENCY_OF, T_DEV_DEPENDENCY_OF,
   T_TEST_DEPENDENCY_OF, T_OPTIONAL_DEPENDENCY_OF, T_STATIC_LINK,
   T_DYNAMIC_LINK, T_DATA_FILE_OF, T_EXAMPLE_OF, T_GENERATED_FROM,
   T_PATCH_FOR, T_PREREQUISITE_FOR, T_AMENDS, T_DEPENDENCY_MANIFEST_OF}

forward_types == {T_DEPENDS_ON, T_PREREQUISITE}

\* relationship types as written in the inputs
R_depends_on_lc == <<100, 101, 112, 101, 110, 100, 115, 45, 111, 110>>
R_Depends_On_mixed == <<68, 101, 112, 101, 110, 100, 115, 95, 79, 110>>
R_runtime_dependency_of_lc == <<114, 117, 110, 116, 105, 109, 101, 45, 100, 101, 112, 101, 110, 100, 101, 110, 99, 121, 45, 111, 102>>
R_dependency_of_lc == <<100, 101, 112, 101, 110, 100, 101, 110, 99, 121, 45, 111, 102>>
R_static_link_lc == <<115, 116, 97, 116, 105, 99, 95, 108, 105, 110, 107>>
R_CONTAINS == <<67, 79, 78, 84, 65, 73, 78, 83>>

Pkg0 == [SPDXID |-> None, spdxid |-> None, name |-> None,
         versionInfo |-> None, version |-> None]

Rel0 == [relationshipType |-> None, spdxElementId |-> None,
         sourceElement |-> None, relatedSpdxElement |-> None,
         targetElement |-> None]

_spdx_pkg_label(pkg) ==
  LET name == Or(pkg.name, S_package)
      version == Or(pkg.versionInfo, pkg.version)
  IN  IF ~Truthy(version) THEN name ELSE name \o S_at \o version

RECURSIVE SpdxPackages(_, _)
SpdxPackages(s, pkgs) ==
  IF pkgs = << >> THEN s
  ELSE LET pkg == Head(pkgs)
           sid == Or(pkg.SPDXID, pkg.spdxid)
           s1 == IF Truthy(sid)
                 THEN [s EXCEPT !.nodes = Put(s.nodes, sid, _spdx_pkg_label(pkg))]
                 ELSE s
       IN  SpdxPackages(s1, Tail(pkgs))

\* (rel.get("relationshipType") or "").upper().replace("-", "_")
SpdxRelType(rel) == ReplaceHyphen(Upper(Or(rel.relationshipType, << >>)))

SpdxRelSrc(rel) == Or(rel.spdxElementId, rel.sourceElement)

SpdxRelDst(rel) == Or(rel.relatedSpdxElement, rel.targetElement)

\* a reverse type adds the edge in the written direction
SpdxAddRel_Unreversed(s, rel) ==
  LET rt == SpdxRelType(rel)
      src == SpdxRelSrc(rel)
      dst == SpdxRelDst(rel)
  IN  IF ~Truthy(src) \/ ~Truthy(dst) THEN s
      ELSE LET n2 == SetDefault(SetDefault(s.nodes, src, src), dst, dst)
           IN  IF rt \in forward_types \cup reverse_types
               THEN [s EXCEPT !.nodes = n2, !.edges = AddEdge(s.edges, src, dst)]
               ELSE [s EXCEPT !.nodes = n2]

\* the body of  for rel in relationships
SpdxAddRel(s, rel) ==
  LET rt == SpdxRelType(rel)
      src == SpdxRelSrc(rel)
      dst == SpdxRelDst(rel)
  IN  IF ~Truthy(src) \/ ~Truthy(dst) THEN s
      ELSE LET n2 == SetDefault(SetDefault(s.nodes, src, src), dst, dst)
           IN  IF rt \in forward_types
               THEN [s EXCEPT !.nodes = n2, !.edges = AddEdge(s.edges, src, dst)]
               ELSE IF rt \in reverse_types
               THEN [s EXCEPT !.nodes = n2, !.edges = AddEdge(s.edges, dst, src)]
               ELSE [s EXCEPT !.nodes = n2]

RECURSIVE SpdxRelationships(_, _)
SpdxRelationships(s, rels) ==
  IF rels = << >> THEN s
  ELSE SpdxRelationships(SpdxAddRel(s, Head(rels)), Tail(rels))

\* desc = documentDescribes or []; a str becomes a one-element list
SpdxDescribes(obj) ==
  IF obj.documentDescribes.kind = "str"
  THEN IF Truthy(obj.documentDescribes.val)
       THEN <<obj.documentDescribes.val>> ELSE << >>
  ELSE IF obj.documentDescribes.kind = "list"
       THEN obj.documentDescribes.items ELSE << >>

SpdxRoots(s, obj) ==
  LET described == {rid \in Range(SpdxDescribes(obj)) : rid \in DOMAIN s.nodes}
  IN  IF described # {} THEN [s EXCEPT !.roots = described]
      ELSE [s EXCEPT !.roots = (DOMAIN s.nodes) \ AllChildren(s.edges)]

_from_spdx(obj) ==
  LET s1 == SpdxPackages(NewSBOM, obj.packages)
      s2 == SpdxRelationships(s1, obj.relationships)
  IN  SpdxRoots(s2, obj)

-----------------------------------------------------------------------------
(* from_json: format detection *)

IsCycloneDX(obj) ==
  \/ ("bomFormat" \in obj.keys /\ obj.bomFormat = S_CycloneDX)
  \/ "components" \in obj.keys
  \/ "dependencies" \in obj.keys

IsSPDX(obj) == "packages" \in obj.keys \/ "relationships" \in obj.keys

-----------------------------------------------------------------------------
(* Input documents *)

MaxComps == 2
MaxDeps == 2
MaxPkgs == 2
MaxRels == 2

CompPool ==
  { [Comp0 EXCEPT !.bom_ref = id_a, !.name = L_Lib, !.version = L_1],
    [Comp0 EXCEPT !.bomRef = id_b, !.name = L_lib, !.group = L_app],
    [Comp0 EXCEPT !.name = id_c,
                  !.dependencies = [kind |-> "list", items |-> <<id_a, id_e>>]],
    [Comp0 EXCEPT !.version = L_1,
                  !.dependencies = [kind |-> "list", items |-> <<id_b>>]] }

MetaPool ==
  { << >>,
    << [Comp0 EXCEPT !.bom_ref = id_root, !.name = L_app] >>,
    << [Comp0 EXCEPT !.purl = id_a, !.name = L_lib] >>,
    << [Comp0 EXCEPT !.version = L_1] >> }

DepPool ==
  { [ref |-> id_a, dependsOn |-> <<id_b, id_b>>],
    [ref |-> id_b, dependsOn |-> <<id_a>>],
    [ref |-> id_c, dependsOn |-> <<id_a, << >>, id_d>>],
    [ref |-> None, dependsOn |-> <<id_b>>],
    [ref |-> id_d, dependsOn |-> << >>] }

PkgPool ==
  { [Pkg0 EXCEPT !.SPDXID = id_P, !.name = L_app, !.versionInfo = L_1],
    [Pkg0 EXCEPT !.spdxid = id_Q] }

RelPool ==
  { [Rel0 EXCEPT !.relationshipType = R_depends_on_lc,
                 !.spdxElementId = id_P, !.relatedSpdxElement = id_Q],
    [Rel0 EXCEPT !.relationshipType = R_runtime_dependency_of_lc,
                 !.spdxElementId = id_P, !.relatedSpdxElement = id_Q],
    [Rel0 EXCEPT !.relationshipType = R_Depends_On_mixed,
                 !.sourceElement = id_Q, !.targetElement = id_P],
    [Rel0 EXCEPT !.relationshipType = R_static_link_lc,
                 !.spdxElementId = id_Q, !.relatedSpdxElement = id_R],
    [Rel0 EXCEPT !.relationshipType = R_dependency_of_lc,
                 !.spdxElementId = id_P, !.relatedSpdxElement = id_Q],
    [Rel0 EXCEPT !.relationshipType = R_CONTAINS,
                 !.spdxElementId = id_P, !.relatedSpdxElement = id_R],
    [Rel0 EXCEPT !.relationshipType = T_DEPENDS_ON,
                 !.relatedSpdxElement = id_Q] }

DescPool ==
  { [kind |-> "absent", val |-> None, items |-> << >>],
    [kind |-> "str", val |-> id_Q, items |-> << >>],
    [kind |-> "list", val |-> None, items |-> <<id_P, id_Z>>] }

NoDesc == [kind |-> "absent", val |-> None, items |-> << >>]

Doc0 == [keys |-> {}, bomFormat |-> None, components |-> << >>,
         metadata_component |-> << >>, dependencies |-> << >>,
         packages |-> << >>, relationships |-> << >>,
         documentDescribes |-> NoDesc]

CdxDocs ==
  { [Doc0 EXCEPT !.keys = {"bomFormat", "components", "dependencies", "metadata"},
                 !.bomFormat = S_CycloneDX, !.components = cs,
                 !.metadata_component = m, !.dependencies = ds] :
      cs \in SeqsUpTo(CompPool, MaxComps), m \in MetaPool,
      ds \in SeqsUpTo(DepPool, MaxDeps) }

SpdxDocs ==
  { [Doc0 EXCEPT !.keys = {"packages", "relationships", "documentDescribes"},
                 !.packages = ps, !.relationships = rs,
                 !.documentDescribes = d] :
      ps \in SeqsUpTo(PkgPool, MaxPkgs), rs \in SeqsUpTo(RelPool, MaxRels),
      d \in DescPool }

\* documents of neither shape, and an SPDX document carrying a
\* "dependencies" key, which the detection order sends to CycloneDX
OddDocs ==
  { Doc0,
    [Doc0 EXCEPT !.keys = {"bomFormat"}, !.bomFormat = L_app],
    [Doc0 EXCEPT !.keys = {"packages", "relationships", "dependencies"},
                 !.packages = <<[Pkg0 EXCEPT !.SPDXID = id_P]>>,
                 !.dependencies = <<[ref |-> id_P, dependsOn |-> <<id_Q>>]>>] }

Docs == CdxDocs \cup SpdxDocs \cup OddDocs

-----------------------------------------------------------------------------
(* Normalisation as a state machine: one call of SBOM.from_json *)

IdleRender ==
  /\ iterOrder = EmptyMap /\ rootsOrder = << >> /\ start_ids = << >>
  /\ forest = << >> /\ mode = "none" /\ include_dupes = FALSE
  /\ max_depth = << >> /\ ri = 0 /\ stack = << >> /\ visited_global = {}
  /\ out = << >> /\ dq = << >> /\ reachable = {}

renderVars == <<iterOrder, rootsOrder, start_ids, forest, mode, include_dupes,
                max_depth, ri, stack, visited_global, out, dq, reachable>>

InitNorm ==
  /\ pc = "start"
  /\ doc \in Docs
  /\ nodes = EmptyMap /\ edges = EmptyMap /\ roots = {}
  /\ IdleRender

FromJsonCycloneDX ==
  /\ pc = "start"
  /\ IsCycloneDX(doc)
  /\ LET s == _from_cyclonedx(doc)
     IN  nodes' = s.nodes /\ edges' = s.edges /\ roots' = s.roots
  /\ pc' = "cyclonedx"
  /\ UNCHANGED <<doc, renderVars>>

FromJsonSPDX ==
  /\ pc = "start"
  /\ ~IsCycloneDX(doc) /\ IsSPDX(doc)
  /\ LET s == _from_spdx(doc)
     IN  nodes' = s.nodes /\ edges' = s.edges /\ roots' = s.roots
  /\ pc' = "spdx"
  /\ UNCHANGED <<doc, renderVars>>

FromJsonUnsupported ==
  /\ pc = "start"
  /\ ~IsCycloneDX(doc) /\ ~IsSPDX(doc)
  /\ pc' = "ValueError"
  /\ UNCHANGED <<doc, nodes, edges, roots, renderVars>>

NextNorm == FromJsonCycloneDX \/ FromJsonSPDX \/ FromJsonUnsupported

SpecNorm == InitNorm /\ [][NextNorm]_vars

-----------------------------------------------------------------------------
(* What the documents say, read off declaratively *)

\* the ids an edge map mentions
EdgeIds(e) == (DOMAIN e) \cup AllChildren(e)

\* an edge map as a set of (source, target) pairs
EdgePairs(e) == UNION {{<<k, c>> : c \in e[k]} : k \in DOMAIN e}

Sources(P) == {p[1] : p \in P}

Targets(P) == {p[2] : p \in P}

ChildSet(P, k) == {p[2] : p \in {q \in P : q[1] = k}}

\* the ids the components array declares
DeclaredIds(obj) ==
  {CxId(obj.components[i]) :
     i \in {j \in DOMAIN obj.components : Truthy(CxId(obj.components[j]))}}

\* the (ref, child) pairs of the top-level dependencies entries
DepPairs(obj) ==
  UNION {{<<obj.dependencies[i].ref, ch>> :
            ch \in {x \in Range(obj.dependencies[i].dependsOn) : Truthy(x)}} :
         i \in {j \in DOMAIN obj.dependencies : Truthy(obj.dependencies[j].ref)}}

\* the (component, child) pairs of the components' inline dependencies lists
InlinePairs(obj) ==
  UNION {{<<CxId(obj.components[i]), ch>> :
            ch \in Range(obj.components[i].dependencies.items)} :
         i \in {j \in DOMAIN obj.components :
                  obj.components[j].dependencies.kind = "list"}}

\* the pairs of the dependencies entries, or of the inline lists when the
\* entries yield none
BasePairs(obj) == IF DepPairs(obj) # {} THEN DepPairs(obj) ELSE InlinePairs(obj)

TopLevelOf(P) == Sources(P) \ Targets(P)

\* the relationships of an SPDX document that carry both ids
FullRels(obj) ==
  {r \in Range(obj.relationships) :
     Truthy(SpdxRelSrc(r)) /\ Truthy(SpdxRelDst(r))}

-----------------------------------------------------------------------------
(* C1 *)

\* C1: for every document from_json accepts, every id that is a key of edges
\* or a member of a child set is a key of nodes, and roots is a subset of
\* the keys of nodes.
C1_GraphClosed ==
  pc \in {"cyclonedx", "spdx"} =>
    /\ EdgeIds(edges) \subseteq DOMAIN nodes
    /\ roots \subseteq DOMAIN nodes

\* an edge target no component declared was given a placeholder node, and
\* the inline fallback ran for a component without an id
C1_Witness ==
  /\ pc = "cyclonedx"
  /\ \E k \in AllChildren(edges) :
        k \notin DeclaredIds(doc) /\ k \in DOMAIN nodes /\ nodes[k] = k
  /\ None \in DOMAIN edges
  /\ roots # {}

-----------------------------------------------------------------------------
(* C7 *)

-----------------------------------------------------------------------------
(* C8 *)

SynthPairs(obj) ==
  LET R == CdxRootId(obj)
      P == BasePairs(obj)
  IN  IF Truthy(R) /\ R \notin Sources(P)
      THEN {<<R, t>> : t \in TopLevelOf(P)} ELSE {}

-----------------------------------------------------------------------------
(* C9 *)

\* C9: the SPDX edge set is exactly source->target for the relationships
\* with both ids whose normalised type is a forward type, plus
\* target->source for those whose normalised type is a reverse type; a
\* relationship of another type, or lacking an id, adds nothing.
C9_SpdxEdges ==
  pc = "spdx" =>
    EdgePairs(edges) =
      {<<SpdxRelSrc(r), SpdxRelDst(r)>> :
         r \in {q \in FullRels(doc) : SpdxRelType(q) \in forward_types}}
      \cup
      {<<SpdxRelDst(r), SpdxRelSrc(r)>> :
         r \in {q \in FullRels(doc) : SpdxRelType(q) \in reverse_types}}

\* a reverse-type relationship X-Y gave Y->X and not X->Y
C9_Witness ==
  /\ pc = "spdx"
  /\ \E r \in FullRels(doc) :
        /\ SpdxRelType(r) \in reverse_types
        /\ r.relationshipType \notin reverse_types
        /\ <<SpdxRelDst(r), SpdxRelSrc(r)>> \in EdgePairs(edges)
        /\ <<SpdxRelSrc(r), SpdxRelDst(r)>> \notin EdgePairs(edges)
  /\ \E r \in Range(doc.relationships) : r \notin FullRels(doc)

-----------------------------------------------------------------------------
(* sorted(xs, key=lambda rid: sbom.nodes.get(rid, rid).lower()) *)

\* the sort key of an id
LabelKey(n, rid) == Lower(Get(n, rid, rid))

\* x goes before the first element whose key is strictly greater, so that
\* elements of equal key keep the order in which they were met (list.sort
\* is stable)
RECURSIVE InsertByKey(_, _, _)
InsertByKey(x, sorted, n) ==
  IF sorted = << >> THEN <<x>>
  ELSE IF StrLess(LabelKey(n, x), LabelKey(n, Head(sorted)))
       THEN <<x>> \o sorted
       ELSE <<Head(sorted)>> \o InsertByKey(x, Tail(sorted), n)

RECURSIVE SortFrom(_, _, _)
SortFrom(xs, acc, n) ==
  IF xs = << >> THEN acc
  ELSE SortFrom(Tail(xs), InsertByKey(Head(xs), acc, n), n)

\* xs is the iterable in its iteration order
SortedByLabel(xs, n) == SortFrom(xs, << >>, n)

\* sorted(S) of a set of strings
SortedIds(S) ==
  CHOOSE p \in Perms(S) : \A i \in 1..(Len(p) - 1) : StrLess(p[i], p[i + 1])

-----------------------------------------------------------------------------
(* build_forest *)

\* [rid for rid in start_ids if rid in sbom.nodes]
RECURSIVE FilterExisting(_, _)
FilterExisting(ids, n) ==
  IF ids = << >> THEN << >>
  ELSE IF Head(ids) \in DOMAIN n
       THEN <<Head(ids)>> \o FilterExisting(Tail(ids), n)
       ELSE FilterExisting(Tail(ids), n)

\* rootsIter is sbom.roots in the order the set is iterated
build_forest(n, rootsIter, ids) ==
  IF ids # << >> /\ FilterExisting(ids, n) # << >>
  THEN FilterExisting(ids, n)
  ELSE SortedByLabel(rootsIter, n)

-----------------------------------------------------------------------------
(* Graphs handed to build_forest and to the renderers *)

Ids == {id_a, id_b, id_c}

\* a and b differ in label only by case; c sorts first by label, last by id
Labels == (id_a :> L_Lib) @@ (id_b :> L_lib) @@ (id_c :> L_app)

\* placeholder nodes: the id is its own label
Placeholders == (id_a :> id_a) @@ (id_b :> id_b) @@ (id_c :> id_c)

Restrict(f, S) == [x \in S |-> f[x]]

MaxStart == 2

InitForest ==
  /\ pc = "start"
  /\ doc = Doc0
  /\ \E S \in (SUBSET Ids) \ {{}}, L \in {Labels, Placeholders} :
        nodes = Restrict(L, S)
  /\ edges = EmptyMap
  /\ roots \in SUBSET (DOMAIN nodes)
  /\ rootsOrder \in Perms(roots)
  /\ start_ids \in SeqsUpTo(Ids \cup {id_Z}, MaxStart)
  /\ iterOrder = EmptyMap /\ forest = << >> /\ mode = "none"
  /\ include_dupes = FALSE /\ max_depth = << >> /\ ri = 0 /\ stack = << >>
  /\ visited_global = {} /\ out = << >> /\ dq = << >> /\ reachable = {}

\* roots = build_forest(s, args.root), a non-empty list
BuildForest ==
  /\ pc = "start"
  /\ build_forest(nodes, rootsOrder, start_ids) # << >>
  /\ forest' = build_forest(nodes, rootsOrder, start_ids)
  /\ pc' = "forest"
  /\ UNCHANGED <<doc, nodes, edges, roots, iterOrder, rootsOrder, start_ids,
                 mode, include_dupes, max_depth, ri, stack, visited_global,
                 out, dq, reachable>>

\* if not roots: "No roots found to render."; sys.exit(4)
BuildForestEmpty ==
  /\ pc = "start"
  /\ build_forest(nodes, rootsOrder, start_ids) = << >>
  /\ forest' = << >>
  /\ pc' = "exit4"
  /\ UNCHANGED <<doc, nodes, edges, roots, iterOrder, rootsOrder, start_ids,
                 mode, include_dupes, max_depth, ri, stack, visited_global,
                 out, dq, reachable>>

NextForest == BuildForest \/ BuildForestEmpty

SpecForest == InitForest /\ [][NextForest]_vars

\* ascending lower-cased label, equal lower-cased labels by ascending id
SortedByLabelThenId(xs, n) ==
  \A i \in 1..(Len(xs) - 1) :
     \/ StrLess(LabelKey(n, xs[i]), LabelKey(n, xs[i + 1]))
     \/ /\ LabelKey(n, xs[i]) = LabelKey(n, xs[i + 1])
        /\ StrLess(xs[i], xs[i + 1])

\* C4: build_forest returns the requested ids that are nodes, in the given
\* order, when there is one; otherwise the candidate roots in ascending
\* lower-cased label, equal lower-cased labels in ascending id.
C4_BuildForest ==
  pc \in {"forest", "exit4"} =>
    LET requested == SelectSeq(start_ids, LAMBDA x : x \in DOMAIN nodes)
    IN  IF requested # << >> THEN forest = requested
        ELSE /\ Range(forest) = roots
             /\ Len(forest) = Cardinality(roots)
             /\ SortedByLabelThenId(forest, nodes)

-----------------------------------------------------------------------------
(* The renderers: one call of ascii_trees, to_d3_tree or to_dot *)

MaxEdges == 3

\* an edge set as the dict  node_id -> children
EdgeMap(E) == [k \in Sources(E) |-> ChildSet(E, k)]

EdgeSets == {E \in SUBSET (Ids \X Ids) : Cardinality(E) <= MaxEdges}

\* the root lists build_forest hands over: one root, two roots, a repeated
\* root (--root may repeat an id); every edge set over Ids is tried, so the
\* graph seen from c is also seen from a or b
RootLists ==
  { <<id_a>>, <<id_a, id_b>>, <<id_b, id_a>>, <<id_a, id_a>> }

\* max_depth: << >> is None, <<d>> the limit d
DepthOptions == {<< >>, <<0>>, <<2>>}

InitRender ==
  /\ pc = "roots"
  /\ doc = Doc0
  /\ nodes = Labels
  /\ \E E \in EdgeSets : edges = EdgeMap(E)
  /\ roots = {} /\ rootsOrder = << >> /\ start_ids = << >>
  \* the order in which each child set is iterated
  /\ iterOrder \in {f \in [DOMAIN edges ->
                             UNION {Perms(edges[k]) : k \in DOMAIN edges}] :
                      \A k \in DOMAIN edges : Range(f[k]) = edges[k]}
  /\ forest \in RootLists
  /\ mode \in {"ascii", "d3", "dot"}
  /\ include_dupes \in (IF mode = "ascii" THEN BOOLEAN ELSE {FALSE})
  /\ max_depth \in (IF mode = "ascii" THEN DepthOptions ELSE {<< >>})
  /\ ri = 1
  /\ stack = << >> /\ visited_global = {} /\ out = << >>
  /\ dq = << >> /\ reachable = {}

graphVars == <<doc, nodes, edges, roots, iterOrder, rootsOrder, start_ids,
               forest, mode, include_dupes, max_depth>>

\* seen | {node} forgotten: the path never grows
PathAdd_Dropped(seen, node) == seen

\* seen = seen | {node}
PathAdd(seen, node) == seen \cup {node}

\* sorted(sbom.edges.get(node, []), key=...)
SortedChildren(node) == SortedByLabel(Get(iterOrder, node, << >>), nodes)

\* ("    " if last else "|   ")
Seg(last) == IF last THEN "    " ELSE "|   "

\* a call of render / make_node that has not run yet
Frame(node, prefix, seen, last, depth) ==
  [node |-> node, prefix |-> prefix, seen |-> seen, last |-> last,
   depth |-> depth, children |-> << >>, i |-> 1, stage |-> "enter"]

Top == stack[Len(stack)]

Pop == SubSeq(stack, 1, Len(stack) - 1)

ReplaceTop(f) == [stack EXCEPT ![Len(stack)] = f]

\* yield prefix + tee + node_text   (show_ids off: node_text = label)
NodeLine(f) ==
  [kind |-> "node", id |-> f.node, depth |-> f.depth, prefix |-> f.prefix,
   tee |-> (f.depth > 0), text |-> Get(nodes, f.node, f.node)]

\* yield prefix + ("    " if last else "|   ") + "+-- (cycle)"
CycleLine(f) ==
  [kind |-> "cycle", id |-> f.node, depth |-> f.depth + 1,
   prefix |-> Append(f.prefix, Seg(f.last)), tee |-> TRUE, text |-> << >>]

\* yield next_prefix + "+-- " + label + "  (seen)"
SeenLine(f, child) ==
  [kind |-> "seen", id |-> child, depth |-> f.depth + 1,
   prefix |-> Append(f.prefix, Seg(f.last)), tee |-> TRUE,
   text |-> Get(nodes, child, child)]

\* print() after each root
BlankLine ==
  [kind |-> "blank", id |-> None, depth |-> 0, prefix |-> << >>,
   tee |-> FALSE, text |-> << >>]

(* ascii_trees *)

\* the limit is tested with > instead of >=
AtDepthLimit_OffByOne(depth) == max_depth # << >> /\ depth > max_depth[1]

\* max_depth is not None and depth >= max_depth
AtDepthLimit(depth) == max_depth # << >> /\ depth >= max_depth[1]

\* for r in roots: render(r, "", set(), True, 0)
AsciiStartRoot ==
  /\ mode = "ascii" /\ pc = "roots"
  /\ stack' = <<Frame(forest[ri], << >>, {}, TRUE, 0)>>
  /\ pc' = "render"
  /\ UNCHANGED <<graphVars, ri, visited_global, out, dq, reachable>>

\* if max_depth is not None and depth >= max_depth: return
RenderDepthLimit ==
  /\ mode = "ascii" /\ pc = "render" /\ stack # << >>
  /\ Top.stage = "enter"
  /\ AtDepthLimit(Top.depth)
  /\ out' = Append(out, NodeLine(Top))
  /\ stack' = Pop
  /\ UNCHANGED <<graphVars, pc, ri, visited_global, dq, reachable>>

\* if node in seen: yield the cycle line; return
RenderCycle ==
  /\ mode = "ascii" /\ pc = "render" /\ stack # << >>
  /\ Top.stage = "enter"
  /\ ~AtDepthLimit(Top.depth)
  /\ Top.node \in Top.seen
  /\ out' = out \o <<NodeLine(Top), CycleLine(Top)>>
  /\ stack' = Pop
  /\ UNCHANGED <<graphVars, pc, ri, visited_global, dq, reachable>>

\* seen = seen | {node}; children = sorted(...)
RenderExpand ==
  /\ mode = "ascii" /\ pc = "render" /\ stack # << >>
  /\ Top.stage = "enter"
  /\ ~AtDepthLimit(Top.depth)
  /\ Top.node \notin Top.seen
  /\ out' = Append(out, NodeLine(Top))
  /\ stack' = ReplaceTop([Top EXCEPT !.seen = PathAdd(Top.seen, Top.node),
                                     !.children = SortedChildren(Top.node),
                                     !.stage = "loop"])
  /\ UNCHANGED <<graphVars, pc, ri, visited_global, dq, reachable>>

\* if not include_dupes and child in visited_global: "(seen)"; continue
RenderChildSeen ==
  /\ mode = "ascii" /\ pc = "render" /\ stack # << >>
  /\ Top.stage = "loop" /\ Top.i <= Len(Top.children)
  /\ ~include_dupes /\ Top.children[Top.i] \in visited_global
  /\ out' = Append(out, SeenLine(Top, Top.children[Top.i]))
  /\ stack' = ReplaceTop([Top EXCEPT !.i = @ + 1])
  /\ UNCHANGED <<graphVars, pc, ri, visited_global, dq, reachable>>

\* visited_global.add(child); render(child, next_prefix, seen, last_child,
\* depth+1)
RenderChildDescend ==
  /\ mode = "ascii" /\ pc = "render" /\ stack # << >>
  /\ Top.stage = "loop" /\ Top.i <= Len(Top.children)
  /\ ~(~include_dupes /\ Top.children[Top.i] \in visited_global)
  /\ visited_global' = visited_global \cup {Top.children[Top.i]}
  /\ stack' = Append(ReplaceTop([Top EXCEPT !.i = @ + 1]),
                     Frame(Top.children[Top.i],
                           Append(Top.prefix, Seg(Top.last)), Top.seen,
                           Top.i = Len(Top.children), Top.depth + 1))
  /\ UNCHANGED <<graphVars, pc, ri, out, dq, reachable>>

\* the for loop of render is exhausted
RenderReturn ==
  /\ mode = "ascii" /\ pc = "render" /\ stack # << >>
  /\ Top.stage = "loop" /\ Top.i > Len(Top.children)
  /\ stack' = Pop
  /\ UNCHANGED <<graphVars, pc, ri, visited_global, out, dq, reachable>>

\* print(); next root, or return
AsciiEndRoot ==
  /\ mode = "ascii" /\ pc = "render" /\ stack = << >>
  /\ out' = Append(out, BlankLine)
  /\ ri' = ri + 1
  /\ pc' = IF ri + 1 > Len(forest) THEN "done" ELSE "roots"
  /\ UNCHANGED <<graphVars, stack, visited_global, dq, reachable>>

(* to_d3_tree: the nested {"name", "children"} dicts in preorder, each with
   its depth *)

S_SBOM_Roots == <<83, 66, 79, 77, 32, 82, 111, 111, 116, 115>>
S_cycle_suffix == <<32, 8634>>

D3Line(kind, id, depth, text) ==
  [kind |-> kind, id |-> id, depth |-> depth, prefix |-> << >>,
   tee |-> FALSE, text |-> text]

\* make_node(r, set()), under "SBOM Roots" unless there is a single root
D3StartRoot ==
  /\ mode = "d3" /\ pc = "roots"
  /\ out' = IF ri = 1 /\ Len(forest) # 1
            THEN Append(out, D3Line("wrapper", None, 0, S_SBOM_Roots))
            ELSE out
  /\ stack' = <<Frame(forest[ri], << >>, {}, TRUE,
                      IF Len(forest) = 1 THEN 0 ELSE 1)>>
  /\ pc' = "render"
  /\ UNCHANGED <<graphVars, ri, visited_global, dq, reachable>>

\* if node in seen: return {"name": label + " ↺", "children": []}
D3Cycle ==
  /\ mode = "d3" /\ pc = "render" /\ stack # << >>
  /\ Top.stage = "enter" /\ Top.node \in Top.seen
  /\ out' = Append(out, D3Line("cyclenode", Top.node, Top.depth,
                               Get(nodes, Top.node, Top.node) \o S_cycle_suffix))
  /\ stack' = Pop
  /\ UNCHANGED <<graphVars, pc, ri, visited_global, dq, reachable>>

\* seen = seen | {node}; kids = sorted(...)
D3Expand ==
  /\ mode = "d3" /\ pc = "render" /\ stack # << >>
  /\ Top.stage = "enter" /\ Top.node \notin Top.seen
  /\ out' = Append(out, D3Line("node", Top.node, Top.depth,
                               Get(nodes, Top.node, Top.node)))
  /\ stack' = ReplaceTop([Top EXCEPT !.seen = PathAdd(Top.seen, Top.node),
                                     !.children = SortedChildren(Top.node),
                                     !.stage = "loop"])
  /\ UNCHANGED <<graphVars, pc, ri, visited_global, dq, reachable>>

\* make_node(k, seen) for the next k in kids
D3Descend ==
  /\ mode = "d3" /\ pc = "render" /\ stack # << >>
  /\ Top.stage = "loop" /\ Top.i <= Len(Top.children)
  /\ stack' = Append(ReplaceTop([Top EXCEPT !.i = @ + 1]),
                     Frame(Top.children[Top.i], << >>, Top.seen, TRUE,
                           Top.depth + 1))
  /\ UNCHANGED <<graphVars, pc, ri, visited_global, out, dq, reachable>>

D3Return ==
  /\ mode = "d3" /\ pc = "render" /\ stack # << >>
  /\ Top.stage = "loop" /\ Top.i > Len(Top.children)
  /\ stack' = Pop
  /\ UNCHANGED <<graphVars, pc, ri, visited_global, out, dq, reachable>>

D3EndRoot ==
  /\ mode = "d3" /\ pc = "render" /\ stack = << >>
  /\ ri' = ri + 1
  /\ pc' = IF ri + 1 > Len(forest) THEN "done" ELSE "roots"
  /\ UNCHANGED <<graphVars, stack, visited_global, out, dq, reachable>>

(* to_dot *)

\* label.replace('"', '\\"')
RECURSIVE EscapeQuotes(_)
EscapeQuotes(s) ==
  IF s = << >> THEN << >>
  ELSE (IF Head(s) = 34 THEN <<92, 34>> ELSE <<Head(s)>>)
       \o EscapeQuotes(Tail(s))

\* for n in sorted(reachable): '  "n" [label="..."];'
DotNodeLines(reach) ==
  [i \in 1..Cardinality(reach) |->
     [kind |-> "node", id |-> SortedIds(reach)[i],
      text |-> EscapeQuotes(Get(nodes, SortedIds(reach)[i],
                                SortedIds(reach)[i]))]]

\* for dst in sorted(sbom.edges.get(src, [])): if dst in reachable
DotEdgesOf(src, reach) ==
  LET dsts == SelectSeq(SortedIds(Get(edges, src, {})),
                        LAMBDA d : d \in reach)
  IN  [i \in 1..Len(dsts) |-> [kind |-> "edge", src |-> src, dst |-> dsts[i]]]

RECURSIVE DotEdgesFrom(_, _)
DotEdgesFrom(srcs, reach) ==
  IF srcs = << >> THEN << >>
  ELSE DotEdgesOf(Head(srcs), reach) \o DotEdgesFrom(Tail(srcs), reach)

\* the edge loop runs over every edge source, reachable or not
DotEdgeLines_AllSources(reach) == DotEdgesFrom(SortedIds(DOMAIN edges), reach)

\* for src in sorted(reachable): ...
DotEdgeLines(reach) == DotEdgesFrom(SortedIds(reach), reach)

\* dq = deque([root])
DotStartRoot ==
  /\ mode = "dot" /\ pc = "roots"
  /\ dq' = <<forest[ri]>>
  /\ pc' = "bfs"
  /\ UNCHANGED <<graphVars, ri, stack, visited_global, out, reachable>>

\* n = dq.popleft(); reachable.add(n); for c in edges.get(n, []): append
DotVisit ==
  /\ mode = "dot" /\ pc = "bfs" /\ dq # << >>
  /\ Head(dq) \notin reachable
  /\ reachable' = reachable \cup {Head(dq)}
  /\ dq' = Tail(dq) \o Get(iterOrder, Head(dq), << >>)
  /\ UNCHANGED <<graphVars, pc, ri, stack, visited_global, out>>

\* if n in reachable: continue
DotSkip ==
  /\ mode = "dot" /\ pc = "bfs" /\ dq # << >>
  /\ Head(dq) \in reachable
  /\ dq' = Tail(dq)
  /\ UNCHANGED <<graphVars, pc, ri, stack, visited_global, out, reachable>>

\* while dq: ends; next root
DotEndRoot ==
  /\ mode = "dot" /\ pc = "bfs" /\ dq = << >>
  /\ ri' = ri + 1
  /\ pc' = IF ri + 1 > Len(forest) THEN "emit" ELSE "roots"
  /\ UNCHANGED <<graphVars, stack, visited_global, out, dq, reachable>>

\* lines = [...]; return "\n".join(lines)
DotEmit ==
  /\ mode = "dot" /\ pc = "emit"
  /\ out' = <<[kind |-> "open"], [kind |-> "rankdir"], [kind |-> "nodeattr"]>>
            \o DotNodeLines(reachable) \o DotEdgeLines(reachable)
            \o <<[kind |-> "close"]>>
  /\ pc' = "done"
  /\ UNCHANGED <<graphVars, ri, stack, visited_global, dq, reachable>>

NextRender ==
  \/ AsciiStartRoot \/ RenderDepthLimit \/ RenderCycle \/ RenderExpand
  \/ RenderChildSeen \/ RenderChildDescend \/ RenderReturn \/ AsciiEndRoot
  \/ D3StartRoot \/ D3Cycle \/ D3Expand \/ D3Descend \/ D3Return \/ D3EndRoot
  \/ DotStartRoot \/ DotVisit \/ DotSkip \/ DotEndRoot \/ DotEmit

SpecRender == InitRender /\ [][NextRender]_vars

\* the interpreter runs the call to its end: a step that can be taken is taken
SpecRenderFair == SpecRender /\ WF_vars(NextRender)

-----------------------------------------------------------------------------
(* Reading the output *)

\* a line that stands for a node being reached
IsOccurrence(l) == l.kind \in {"node", "seen", "cyclenode"}

\* the lines of the nodes on the path from the root down to line k
AncestorIdx(o, k) ==
  {j \in 1..(k - 1) :
     /\ o[j].kind = "node"
     /\ o[j].depth < o[k].depth
     /\ \A m \in (j + 1)..(k - 1) : o[m].depth > o[j].depth}

\* the id of line k is the id of one of its ancestors
OnPath(o, k) == o[k].id \in {o[j].id : j \in AncestorIdx(o, k)}

\* line k carries the cycle marker and nothing else lies beneath it
CycleMarked(o, k) ==
  \/ /\ o[k].kind = "cyclenode"
     /\ k < Len(o) => o[k + 1].depth <= o[k].depth
  \/ /\ o[k].kind = "node"
     /\ k < Len(o)
     /\ o[k + 1].kind = "cycle" /\ o[k + 1].depth = o[k].depth + 1
     /\ k + 1 < Len(o) => o[k + 2].depth <= o[k].depth

\* line k is a node rendered in expanded form
Expanded(o, k) ==
  /\ o[k].kind = "node"
  /\ ~(k < Len(o) /\ o[k + 1].kind = "cycle")

\* the ids reachable from S along the edges
RECURSIVE ReachFrom(_)
ReachFrom(S) ==
  LET S2 == S \cup UNION {Get(edges, n, {}) : n \in S}
  IN  IF S2 = S THEN S ELSE ReachFrom(S2)

-----------------------------------------------------------------------------
(* C2 *)

\* C2: on every graph, cyclic or not, and every root list, ascii_trees (all
\* include_dupes / max_depth settings), to_d3_tree and to_dot run to their
\* end, and no descent is ever longer than the number of nodes plus one.
C2_Terminates ==
  /\ <>(pc = "done")
  /\ [](Len(stack) <= Cardinality(DOMAIN nodes) + 1)

\* a call has ended whose output holds a cycle marker at the end of a
\* descent through every node
C2_Witness ==
  /\ pc = "done"
  /\ mode = "ascii" /\ include_dupes /\ max_depth = << >>
  /\ \E k \in DOMAIN out :
        /\ out[k].kind = "cycle"
        /\ out[k].depth = Cardinality(DOMAIN nodes) + 1

-----------------------------------------------------------------------------
(* C3 *)

\* C3: in ascii_trees and to_d3_tree the children of every expanded node
\* are emitted in ascending lower-cased label, and children of equal
\* lower-cased label in ascending id, whatever the iteration order of the
\* child set.
C3_ChildOrder ==
  mode \in {"ascii", "d3"} =>
    \A i \in DOMAIN stack :
       stack[i].stage = "loop" =>
         SortedByLabelThenId(stack[i].children, nodes)

-----------------------------------------------------------------------------
(* C5 *)

\* C5: in ascii_trees (both include_dupes settings, no depth limit) and in
\* to_d3_tree, every occurrence of an id that is already on the current
\* ancestor path is rendered with the cycle marker, with nothing beneath it.
C5_CycleMarker ==
  (mode \in {"ascii", "d3"} /\ max_depth = << >>) =>
    \A k \in DOMAIN out :
       (IsOccurrence(out[k]) /\ OnPath(out, k)) => CycleMarked(out, k)

-----------------------------------------------------------------------------
(* C6 *)

\* C6: in ascii_trees without include_dupes and without depth limit, over
\* the whole forest output: an id reached for the first time, as a root or
\* as a child, is rendered as a node; every later reference to it that is
\* not on the ancestor path is a "(seen)" line; so no id is rendered in
\* expanded form more than once.
C6_SeenOnce ==
  (mode = "ascii" /\ ~include_dupes /\ max_depth = << >>) =>
    /\ \A k \in DOMAIN out :
          IsOccurrence(out[k]) =>
            LET earlier == \E j \in 1..(k - 1) :
                              IsOccurrence(out[j]) /\ out[j].id = out[k].id
            IN  /\ ~earlier => out[k].kind = "node"
                /\ (earlier /\ ~OnPath(out, k)) => out[k].kind = "seen"
    /\ \A x \in Ids :
          Cardinality({k \in DOMAIN out :
                         Expanded(out, k) /\ out[k].id = x}) <= 1

-----------------------------------------------------------------------------
(* C10 *)

\* C10: the node declarations of to_dot are exactly the ids reachable from
\* the roots, each once, and its edge declarations exactly the edges between
\* reachable ids, each once.
C10_DotReachable ==
  (pc = "done" /\ mode = "dot") =>
    LET decl == SelectSeq(out, LAMBDA l : l.kind = "node")
        arcs == SelectSeq(out, LAMBDA l : l.kind = "edge")
        R == ReachFrom(Range(forest))
        E == {p \in EdgePairs(edges) : p[1] \in R /\ p[2] \in R}
    IN  /\ {decl[i].id : i \in DOMAIN decl} = R
        /\ Len(decl) = Cardinality(R)
        /\ {<<arcs[i].src, arcs[i].dst>> : i \in DOMAIN arcs} = E
        /\ Len(arcs) = Cardinality(E)

\* to_dot has returned on a graph where an unreachable node has an edge
\* into the reachable part, and a reachable node was queued twice
C10_Witness ==
  /\ pc = "done" /\ mode = "dot"
  /\ \E p \in EdgePairs(edges) : p[1] \notin reachable /\ p[2] \in reachable
  /\ \E p \in EdgePairs(edges) : p[1] \in reachable /\ p[2] \in Range(forest)
  /\ Cardinality(reachable) >= 2

-----------------------------------------------------------------------------
(* C11 *)

\* C11: in ascii_trees with a limit max_depth = D >= 0 (root depth 0), for
\* both include_dupes settings: a node reached at depth D is printed, and
\* that is all that happens for it (none of its children is visited, marked
\* visited or printed); no call runs and no line of any kind is printed at
\* a depth greater than D.
C11_DepthLimit ==
  /\ [](  (mode = "ascii" /\ max_depth # << >>) =>
            /\ \A k \in DOMAIN out : out[k].depth <= max_depth[1]
            /\ \A i \in DOMAIN stack :
                  /\ stack[i].depth <= max_depth[1]
                  /\ stack[i].depth = max_depth[1] => stack[i].stage = "enter")
  /\ [][ (/\ mode = "ascii" /\ max_depth # << >>
          /\ stack # << >> /\ Top.depth = max_depth[1])
         => /\ Len(out') = Len(out) + 1
            /\ SubSeq(out', 1, Len(out)) = out
            /\ out'[Len(out')].kind = "node"
            /\ out'[Len(out')].id = Top.node
            /\ out'[Len(out')].depth = max_depth[1]
            /\ visited_global' = visited_global
            /\ stack' = Pop ]_vars

\* a node that has children was printed at the limit, below the root, and a
\* "(cycle)" line was printed exactly at the limit
C11_Witness ==
  /\ mode = "ascii" /\ max_depth = <<2>> /\ pc = "done"
  /\ \E k \in DOMAIN out :
        /\ out[k].kind = "node" /\ out[k].depth = 2
        /\ out[k].id \in DOMAIN edges
  /\ \E k \in DOMAIN out : out[k].kind = "cycle" /\ out[k].depth = 2

=============================================================================
